---- MODULE Spec2Model ----
(***************************************************************************)
(* Model of slider.py: _SliderModel (derived numbers and geometry),        *)
(* _SliderEngine (the value controller) and the pointer handlers of        *)
(* _Track and _Thumb that feed it.                                         *)
(*                                                                         *)
(* Numbers.  Python floats are modelled as exact fixed-point numbers: an   *)
(* integer n stands for the value n / Scale.  The configurations below are *)
(* chosen so that every value the engine computes is a multiple of 1/4 or  *)
(* a published decimal, i.e. the float arithmetic of the program computes  *)
(* it without rounding error.  Pixels are plain integers.                  *)
(*                                                                         *)
(* Events.  tkinter runs a write trace inside the write that triggers it,  *)
(* so one action covers an input event together with every callback it     *)
(* sets off: the handler, _set_ret_val and the subscribers' traces.        *)
(***************************************************************************)
EXTENDS Integers, Sequences, FiniteSets, TLC

VARIABLES
    cfg,            \* keyword arguments given to Slider(parent, **kwargs)
    model,          \* Slider.model, the _SliderModel built from them
    phase,          \* "args": Slider(...) called; "new": engine built (slider.py:133);
                    \* "ready": Slider.__init__ returned; "failed": it raised
    state,          \* _SliderEngine.state (BooleanVar)
    trace_ids,      \* _SliderEngine.trace_ids, the channels a trace id is held for
    traces,         \* number of write traces registered on slide, slide_fast, slide_snapped
    slider_value,   \* _SliderEngine.slider_value (DoubleVar)
    ret_val,        \* _SliderEngine.ret_val, read by Slider.get()
    sinks,          \* the variables registered with add_subscriber, in order
    thumb_clicked,  \* _Thumb._clicked
    track_clicked,  \* _Track.track_clicked
    op,             \* the operation performed last
    arg,            \* its argument: the value given to set, the displacement of an event
    resumed,        \* "cut": disabled during the current gesture; "yes": and enabled again
    err,            \* "none", or the exception or warning the last operation raised
    writes          \* number of writes of ret_val the last operation caused

vars == <<cfg, model, phase, state, trace_ids, traces, slider_value,
          ret_val, sinks, thumb_clicked, track_clicked, op, arg, resumed,
          err, writes>>

-----------------------------------------------------------------------------
(* Representation and bounds *)

\* n stands for n / Scale: three decimal digits.
Scale == 10 ^ 3

\* Largest number of subscribers registered in one run.
MaxSubscribers == 2

\* Distance between the values a property of _snap is tried on.
ProbeStep == 50

\* The displacement variables, in the order of traced_vars and funcs.
Channels == <<"slide", "slide_fast", "slide_snapped">>

ChannelSet == {"slide", "slide_fast", "slide_snapped"}

-----------------------------------------------------------------------------
(* Arithmetic of the Python built-ins the program uses *)

Abs(x) == IF x < 0 THEN -x ELSE x

Sign(x) == IF x < 0 THEN -1 ELSE 1

\* Python's min(a, b) and max(a, b) on numbers.
Min(a, b) == IF b < a THEN b ELSE a

Max(a, b) == IF b > a THEN b ELSE a

\* int(a / b): the quotient truncated toward zero.
TruncDiv(a, b) == Sign(a) * Sign(b) * (Abs(a) \div Abs(b))

\* The size of one unit of the last kept decimal: 10^-precision.
Unit(precision) == Scale \div (10 ^ precision)

\* round(x, precision or None) and the rounding of f"{x:.{precision}f}":
\* to the nearest multiple of 10^-precision, exact ties to the even one.
RoundHalfEven(x, u) ==
    LET q == x \div u
        r == x % u
    IN  IF 2 * r < u THEN q * u
        ELSE IF 2 * r > u THEN (q + 1) * u
        ELSE IF q % 2 = 0 THEN q * u ELSE (q + 1) * u

\* (a / b).quantize(Decimal("1")) under ROUND_HALF_UP: the nearest integer,
\* ties away from zero.
RoundHalfUpDiv(a, b) ==
    Sign(a) * Sign(b) * ((2 * Abs(a) + Abs(b)) \div (2 * Abs(b)))

\* int(float(value)) for a numeric value: the integer part.
IntOfFloat(x) == Sign(x) * ((Abs(x) \div Scale) * Scale)

-----------------------------------------------------------------------------
(* _SliderModel.__init__: the numbers derived from the keyword arguments *)

\* Long side of the thumb in pixels.
ThumbLongSide(c) ==
    IF c.thumb_style = "classic"
    THEN Max(c.track_length \div 10, 40)
    ELSE 30

\* Mutant of Numerical: the warning is given but num_ticks is kept.
NumericalKeepsTicks(c) ==
    LET u == Unit(c.precision)
        start_value == RoundHalfEven(c.start_value, u)
        end_value == RoundHalfEven(c.end_value, u)
        value_range == end_value - start_value
    IN  [ precision |-> c.precision,
          start_value |-> start_value,
          end_value |-> end_value,
          initial_value |-> IF c.has_initial THEN c.initial_value
                            ELSE start_value,
          min_value |-> Min(start_value, end_value),
          max_value |-> Max(start_value, end_value),
          value_range |-> value_range,
          num_ticks |-> c.num_ticks,
          tick_width_num |-> value_range \div c.num_ticks,
          adjusted |-> Abs(value_range) < u * c.num_ticks ]

\* The numerical attributes: rounded range ends, clamp bounds, the tick
\* count after the "too many ticks" adjustment and the tick width.
Numerical(c) ==
    LET u == Unit(c.precision)
        start_value == RoundHalfEven(c.start_value, u)
        end_value == RoundHalfEven(c.end_value, u)
        value_range == end_value - start_value
        \* abs(value_range / num_ticks) < 1 / 10**precision
        adjust == Abs(value_range) < u * c.num_ticks
        num_ticks == IF adjust THEN Abs(value_range) \div u ELSE c.num_ticks
    IN  [ precision |-> c.precision,
          start_value |-> start_value,
          end_value |-> end_value,
          initial_value |-> IF c.has_initial THEN c.initial_value
                            ELSE start_value,
          min_value |-> Min(start_value, end_value),
          max_value |-> Max(start_value, end_value),
          value_range |-> value_range,
          num_ticks |-> num_ticks,
          tick_width_num |-> value_range \div num_ticks,
          adjusted |-> adjust ]

\* The graphical dimensions, computed irrespective of orientation, and the
\* factor converting a thumb displacement into a change of value.
SliderModel(c) ==
    LET n == Numerical(c)
        thumb_long_side == ThumbLongSide(c)
        slide_0 == c.track_length - thumb_long_side
        tick_width == TruncDiv(slide_0, n.num_ticks)
        length == thumb_long_side + n.num_ticks * tick_width
        track_slide_length == length - thumb_long_side
    IN  [ orientation |-> c.orientation,
          snap_to_ticks |-> c.snap_to_ticks,
          precision |-> n.precision,
          start_value |-> n.start_value,
          end_value |-> n.end_value,
          initial_value |-> n.initial_value,
          min_value |-> n.min_value,
          max_value |-> n.max_value,
          num_ticks |-> n.num_ticks,
          tick_width_num |-> n.tick_width_num,
          tick_width |-> tick_width,
          length |-> length,
          thumb_long_side |-> thumb_long_side,
          track_slide_length |-> track_slide_length,
          displacement_to_value |-> n.value_range \div track_slide_length ]

\* Slider.model before _SliderModel.__init__ has returned: no attribute
\* is set.
NoModel ==
    [ orientation |-> "", snap_to_ticks |-> FALSE, precision |-> 0,
      start_value |-> 0, end_value |-> 0, initial_value |-> 0,
      min_value |-> 0, max_value |-> 0, num_ticks |-> 0,
      tick_width_num |-> 0, tick_width |-> 0, length |-> 0,
      thumb_long_side |-> 0, track_slide_length |-> 0,
      displacement_to_value |-> 0 ]

\* The range check of _SliderModel.__init__, on the arguments as given.
InvalidRange(c) == c.start_value = c.end_value

\* value_range is 0 once both ends are rounded: the adjusted num_ticks is
\* 0 and value_range / self.num_ticks divides by it.
EmptyRange(c) ==
    RoundHalfEven(c.start_value, Unit(c.precision))
        = RoundHalfEven(c.end_value, Unit(c.precision))

\* The final track_slide_length is 0: the track leaves the thumb less
\* than one pixel per tick, and value_range / track_slide_length divides
\* by zero.
NoSlide(c) ==
    TruncDiv(c.track_length - ThumbLongSide(c), Numerical(c).num_ticks) = 0

-----------------------------------------------------------------------------
(* Pure helpers of _SliderEngine *)

\* _SliderEngine._clamp
Clamp(num) == Min(Max(model.min_value, num), model.max_value)

\* Mutant of Snap: the quotient is cut to its integer part, not rounded.
SnapTruncating(value) ==
    TruncDiv(RoundHalfEven(value, Unit(model.precision)),
             model.tick_width_num)
    * model.tick_width_num

\* Mutant of Snap: the value is divided as it is, not at `precision`
\* decimals.
SnapUnrounded(value) ==
    RoundHalfUpDiv(value, model.tick_width_num) * model.tick_width_num

\* Mutant of Snap: an index exactly halfway between two integers goes to
\* the even one.
SnapHalfEven(value) ==
    LET d == RoundHalfEven(value, Unit(model.precision))
        w == model.tick_width_num
        q == Abs(d) \div Abs(w)
        r == Abs(d) % Abs(w)
        n == IF 2 * r < Abs(w) THEN q
             ELSE IF 2 * r > Abs(w) THEN q + 1
             ELSE IF q % 2 = 0 THEN q ELSE q + 1
    IN  Sign(d) * Sign(w) * n * w

\* _SliderEngine._snap: the value at `precision` decimals, divided by the
\* tick width in decimal arithmetic, rounded half up, times the tick width.
Snap(value) ==
    RoundHalfUpDiv(RoundHalfEven(value, Unit(model.precision)),
                   model.tick_width_num)
    * model.tick_width_num

\* The value _set_ret_val writes to ret_val for a slider value.
Rounded(value) == RoundHalfEven(value, Unit(model.precision))

\* Mutant of PositionNum: the vertical thumb is placed like the
\* horizontal one, by the distance of the value from start_value.
PositionNumFromStart(value) == value - model.start_value

\* _Thumb.position times displacement_to_value: the thumb offset of a
\* value, kept as a numerator over displacement_to_value.
PositionNum(value) ==
    IF model.orientation = "horizontal"
    THEN value - model.start_value
    ELSE model.end_value - value

-----------------------------------------------------------------------------
(* Inputs *)

\* Keyword arguments of the sliders under consideration.  Values are in
\* units of 1/Scale, lengths in pixels.
Configs ==
    { \* ascending integer range from 0, ticks at 0, 1, 2, half a unit
      \* per pixel
      [ orientation |-> "horizontal", thumb_style |-> "classic",
        track_length |-> 44, start_value |-> 0, end_value |-> 2000,
        has_initial |-> FALSE, initial_value |-> 0, num_ticks |-> 2,
        precision |-> 0, snap_to_ticks |-> FALSE ],
      \* range whose ends are no multiples of the tick width 2.5
      [ orientation |-> "horizontal", thumb_style |-> "dot",
        track_length |-> 34, start_value |-> 1000, end_value |-> 6000,
        has_initial |-> FALSE, initial_value |-> 0, num_ticks |-> 2,
        precision |-> 0, snap_to_ticks |-> TRUE ],
      \* descending integer range, vertical
      [ orientation |-> "vertical", thumb_style |-> "dot",
        track_length |-> 34, start_value |-> 2000, end_value |-> 0,
        has_initial |-> TRUE, initial_value |-> 1000, num_ticks |-> 2,
        precision |-> 0, snap_to_ticks |-> TRUE ],
      \* one decimal, ticks at 0, 0.5, 1, 1.5, a quarter per pixel
      [ orientation |-> "horizontal", thumb_style |-> "dot",
        track_length |-> 36, start_value |-> 0, end_value |-> 1500,
        has_initial |-> TRUE, initial_value |-> 250, num_ticks |-> 3,
        precision |-> 1, snap_to_ticks |-> FALSE ],
      \* one decimal, descending, snapping
      [ orientation |-> "vertical", thumb_style |-> "dot",
        track_length |-> 36, start_value |-> 1500, end_value |-> 0,
        has_initial |-> FALSE, initial_value |-> 0, num_ticks |-> 3,
        precision |-> 1, snap_to_ticks |-> TRUE ],
      \* more ticks than integers in the range, descending, a quarter per
      \* pixel
      [ orientation |-> "vertical", thumb_style |-> "dot",
        track_length |-> 38, start_value |-> 2000, end_value |-> 0,
        has_initial |-> FALSE, initial_value |-> 0, num_ticks |-> 5,
        precision |-> 0, snap_to_ticks |-> FALSE ],
      \* start_value == end_value
      [ orientation |-> "horizontal", thumb_style |-> "dot",
        track_length |-> 34, start_value |-> 1000, end_value |-> 1000,
        has_initial |-> FALSE, initial_value |-> 0, num_ticks |-> 2,
        precision |-> 0, snap_to_ticks |-> FALSE ],
      \* ends 0 and 0.4 that differ as given and are equal once rounded
      [ orientation |-> "horizontal", thumb_style |-> "dot",
        track_length |-> 34, start_value |-> 0, end_value |-> 400,
        has_initial |-> FALSE, initial_value |-> 0, num_ticks |-> 2,
        precision |-> 0, snap_to_ticks |-> FALSE ],
      \* initial_value above the range
      [ orientation |-> "horizontal", thumb_style |-> "classic",
        track_length |-> 44, start_value |-> 0, end_value |-> 2000,
        has_initial |-> TRUE, initial_value |-> 5000, num_ticks |-> 2,
        precision |-> 0, snap_to_ticks |-> FALSE ] }

\* Keyword arguments of the sliders of the click scenario: the range
\* 0..100 with ten ticks, snapping, and its descending vertical twin; five
\* eighths of a unit per pixel.  The third slider has the range -20..20
\* with four ticks, a quarter of a unit per pixel.
ScenarioConfigs ==
    { [ orientation |-> "horizontal", thumb_style |-> "classic",
        track_length |-> 200, start_value |-> 0, end_value |-> 100 * Scale,
        has_initial |-> FALSE, initial_value |-> 0, num_ticks |-> 10,
        precision |-> 0, snap_to_ticks |-> TRUE ],
      [ orientation |-> "vertical", thumb_style |-> "classic",
        track_length |-> 200, start_value |-> 100 * Scale, end_value |-> 0,
        has_initial |-> FALSE, initial_value |-> 0, num_ticks |-> 10,
        precision |-> 0, snap_to_ticks |-> TRUE ],
      [ orientation |-> "horizontal", thumb_style |-> "classic",
        track_length |-> 200, start_value |-> -20 * Scale,
        end_value |-> 20 * Scale,
        has_initial |-> FALSE, initial_value |-> 0, num_ticks |-> 4,
        precision |-> 0, snap_to_ticks |-> TRUE ] }

\* Arguments of set(): numbers, and one text that is no number.
SetInputs ==
    [kind : {"number"}, val : {-500, 250, 1000, 1700, 2700, 6900, 9000}]
    \cup {[kind |-> "text", val |-> 0]}

\* event.x_root - drag_start_x of a <Motion> event, in pixels.
MoveDeltas == {-3, 0, 2}

\* event.delta of a <MouseWheel> event.
WheelDeltas == {-120, -1, 0, 1, 120}

\* event.x (event.y) of a <Button> event in the track: near either end,
\* and the first pixel beyond the thumb; there is no track before the
\* model is built.
ClickPositions ==
    IF model = NoModel THEN {}
    ELSE {1, model.length - 1,
          TruncDiv(PositionNum(slider_value), model.displacement_to_value)
          + model.thumb_long_side}
         \cap (0 .. model.length - 1)

\* event.x (event.y) of a <Button> event anywhere in the track.
TrackPixels == 0 .. model.length - 1

-----------------------------------------------------------------------------
(* _SliderEngine: the displacement handlers *)

\* Mutant of SlideValue: the drag quantizes when snap_to_ticks is on.
SlideValueSnapping(cur, d) ==
    Clamp(IF model.snap_to_ticks
          THEN Snap(cur + d * model.displacement_to_value)
          ELSE cur + d * model.displacement_to_value)

\* Mutant of SlideValue: the engine turns the displacement of a vertical
\* slider around.
SlideValueByOrientation(cur, d) ==
    Clamp(cur + (IF model.orientation = "vertical" THEN -d ELSE d)
                * model.displacement_to_value)

\* _SliderEngine._slide: the new slider value for displacement d.
SlideValue(cur, d) == Clamp(cur + d * model.displacement_to_value)

\* Mutant of SlideFastValue: from a snapped value the step is one tick
\* width in the direction of the argument.
SlideFastValueBySign(cur, d) ==
    IF cur = Snap(cur)
    THEN Clamp(cur + Sign(d) * model.tick_width_num)
    ELSE Clamp(Snap(cur + (IF d < 0 THEN -1 ELSE 1)
                          * (model.tick_width_num \div 2)))

\* _SliderEngine._slide_fast; 0.5 * tick_width_num is exact for the tick
\* widths of Configs.
SlideFastValue(cur, d) ==
    IF cur = Snap(cur)
    THEN Clamp(cur + d * model.tick_width_num)
    ELSE Clamp(Snap(cur + (IF d < 0 THEN -1 ELSE 1)
                          * (model.tick_width_num \div 2)))

\* Mutant of SlideSnappedValue: no half tick is added before snapping.
SlideSnappedValueNoBias(cur, d) ==
    Clamp(Snap(cur + d * model.displacement_to_value))

\* _SliderEngine._slide_snapped
SlideSnappedValue(cur, d) ==
    Clamp(Snap(cur + d * model.displacement_to_value
                   + (IF d < 0 THEN -1 ELSE 1)
                     * (model.tick_width_num \div 2)))

\* self.funcs: the handler start() binds to a displacement variable.
HandlerValue(ch, cur, d) ==
    CASE ch = "slide" -> SlideValue(cur, d)
      [] ch = "slide_fast" -> SlideFastValue(cur, d)
      [] ch = "slide_snapped" -> SlideSnappedValue(cur, d)

\* A write of a traced variable runs every trace registered on it.
RECURSIVE Dispatch(_, _, _, _)
Dispatch(ch, n, cur, d) ==
    IF n = 0 THEN cur ELSE Dispatch(ch, n - 1, HandlerValue(ch, cur, d), d)

\* Mutant of WriteSliderValue: the subscribers get the unrounded value.
WriteSliderValueUnrounded(v, n) ==
    /\ slider_value' = v
    /\ ret_val' = Rounded(v)
    /\ sinks' = [i \in DOMAIN sinks |-> v]
    /\ writes' = n

\* Mutant of WriteSliderValue: a write that leaves the value as it was is
\* dropped and notifies nobody.
WriteSliderValueCoalesced(v, n) ==
    /\ slider_value' = v
    /\ ret_val' = Rounded(v)
    /\ sinks' = [i \in DOMAIN sinks |-> IF v = slider_value THEN sinks[i]
                                        ELSE Rounded(v)]
    /\ writes' = IF v = slider_value THEN 0 ELSE n

\* Mutant of WriteSliderValue: the value is published as it is stored.
WriteSliderValueRaw(v, n) ==
    /\ slider_value' = v
    /\ ret_val' = v
    /\ sinks' = [i \in DOMAIN sinks |-> v]
    /\ writes' = n

\* slider_value.set(v): the write trace _set_ret_val publishes the rounded
\* value, and the traces on ret_val copy it to every subscriber.
WriteSliderValue(v, n) ==
    /\ slider_value' = v
    /\ ret_val' = Rounded(v)
    /\ sinks' = [i \in DOMAIN sinks |-> Rounded(v)]
    /\ writes' = n

\* var.set(d) on one of the displacement variables slide, slide_fast and
\* slide_snapped: the handlers traced on it, if any, run and read d back.
\* A handler reads its variable only inside the trace of that write, so the
\* value left in the variable between writes is not kept.
WriteChannel(ch, d) ==
    /\ IF traces[ch] = 0
       THEN /\ UNCHANGED <<slider_value, ret_val, sinks>>
            /\ writes' = 0
       ELSE WriteSliderValue(Dispatch(ch, traces[ch], slider_value, d),
                             traces[ch])

-----------------------------------------------------------------------------
(* _SliderEngine: public methods *)

\* Records of the last operation: its name, argument and outcome.
NoArg == [kind |-> "none", val |-> 0]

Pixels(d) == [kind |-> "pixels", val |-> d]

Ghost(o, a, e) == op' = o /\ arg' = a /\ err' = e

\* The value set() asks for: float(value), or int(float(value)) when the
\* precision is 0.
RequestedValue(val) == IF model.precision # 0 THEN val ELSE IntOfFloat(val)

\* Mutant of SetRejects: a value on a bound is rejected too.
SetRejectsAtBounds(value) ==
    \/ value.kind # "number"
    \/ RequestedValue(value.val) <= model.min_value
    \/ RequestedValue(value.val) >= model.max_value

\* Whether set() raises ValueError for the argument.
SetRejects(value) ==
    \/ value.kind # "number"
    \/ RequestedValue(value.val) # Clamp(RequestedValue(value.val))

\* The value set() stores for an accepted argument.
SetValue(val) ==
    IF model.snap_to_ticks
    THEN Snap(RequestedValue(val))
    ELSE RequestedValue(val)

\* Mutant of EngineSet: an out-of-range number is clamped and stored
\* before the error is raised.
EngineSetClampFirst(value) ==
    IF SetRejects(value)
    THEN /\ err' = "ValueError"
         /\ IF value.kind = "number"
            THEN WriteSliderValue(Clamp(RequestedValue(value.val)), 1)
            ELSE /\ writes' = 0
                 /\ UNCHANGED <<slider_value, ret_val, sinks>>
    ELSE /\ err' = "none"
         /\ WriteSliderValue(SetValue(value.val), 1)

\* Mutant of EngineSet: a disabled engine ignores set().
EngineSetWhenEnabled(value) ==
    IF SetRejects(value)
    THEN /\ err' = "ValueError"
         /\ writes' = 0
         /\ UNCHANGED <<slider_value, ret_val, sinks>>
    ELSE /\ err' = "none"
         /\ IF state \/ phase = "new"
            THEN WriteSliderValue(SetValue(value.val), 1)
            ELSE /\ writes' = 0
                 /\ UNCHANGED <<slider_value, ret_val, sinks>>

\* _SliderEngine.set as a step of the engine, from any interaction state.
EngineSet(value) ==
    IF SetRejects(value)
    THEN /\ err' = "ValueError"
         /\ writes' = 0
         /\ UNCHANGED <<slider_value, ret_val, sinks>>
    ELSE /\ err' = "none"
         /\ WriteSliderValue(SetValue(value.val), 1)

\* Mutant of EngineStart: no status check, the traces are registered again.
EngineStartUnguarded ==
    /\ state' = TRUE
    /\ trace_ids' = Channels
    /\ traces' = [ch \in ChannelSet |-> traces[ch] + 1]

\* _SliderEngine.start: register the three traces unless already enabled.
EngineStart ==
    IF ~state
    THEN /\ state' = TRUE
         /\ trace_ids' = Channels
         /\ traces' = [ch \in ChannelSet |-> traces[ch] + 1]
    ELSE UNCHANGED <<state, trace_ids, traces>>

\* Mutant of EngineStop: no status check, the held ids are removed again.
EngineStopUnguarded ==
    /\ state' = FALSE
    /\ traces' = [ch \in ChannelSet |->
                     IF \E i \in DOMAIN trace_ids : trace_ids[i] = ch
                     THEN traces[ch] - 1 ELSE traces[ch]]
    /\ UNCHANGED trace_ids

\* Mutant of EngineStop: the state is switched but the traces stay.
EngineStopKeepsTraces ==
    IF state
    THEN /\ state' = FALSE
         /\ UNCHANGED <<trace_ids, traces>>
    ELSE UNCHANGED <<state, trace_ids, traces>>

\* _SliderEngine.stop: remove the traces whose ids are held, if enabled.
EngineStop ==
    IF state
    THEN /\ state' = FALSE
         /\ traces' = [ch \in ChannelSet |->
                          IF \E i \in DOMAIN trace_ids : trace_ids[i] = ch
                          THEN traces[ch] - 1 ELSE traces[ch]]
         /\ UNCHANGED trace_ids
    ELSE UNCHANGED <<state, trace_ids, traces>>

\* Mutant of Construct: the range is checked after the attributes of the
\* model are set, so a failed construction leaves a partly built model.
ConstructChecksLate ==
    /\ phase = "args"
    /\ IF InvalidRange(cfg)
       THEN /\ phase' = "failed" /\ err' = "ValueError"
            /\ model' = [NoModel EXCEPT
                            !.orientation = cfg.orientation,
                            !.start_value = cfg.start_value,
                            !.end_value = cfg.end_value]
       ELSE IF EmptyRange(cfg)
       THEN /\ phase' = "failed" /\ err' = "ZeroDivisionError"
            /\ UNCHANGED model
       ELSE IF NoSlide(cfg)
       THEN /\ phase' = "failed" /\ err' = "ZeroDivisionError"
            /\ UNCHANGED model
       ELSE /\ phase' = "new"
            /\ model' = SliderModel(cfg)
            /\ err' = IF Numerical(cfg).adjusted THEN "UserWarning"
                      ELSE "none"
    /\ op' = "construct" /\ arg' = NoArg
    /\ UNCHANGED <<cfg, state, trace_ids, traces, slider_value, ret_val,
                   sinks, thumb_clicked, track_clicked, resumed, writes>>

\* Slider.__init__ up to the engine: _SliderModel(**kwargs) raises for an
\* invalid range before it sets any attribute, and divides by zero in the
\* tick adjustment for a range that is empty once rounded, or in
\* displacement_to_value for a track with no slide length; otherwise it
\* warns if it adjusts num_ticks, and _SliderEngine(model) is built.
Construct ==
    /\ phase = "args"
    /\ IF InvalidRange(cfg)
       THEN /\ phase' = "failed" /\ err' = "ValueError"
            /\ UNCHANGED model
       ELSE IF EmptyRange(cfg)
       THEN /\ phase' = "failed" /\ err' = "ZeroDivisionError"
            /\ UNCHANGED model
       ELSE IF NoSlide(cfg)
       THEN /\ phase' = "failed" /\ err' = "ZeroDivisionError"
            /\ UNCHANGED model
       ELSE /\ phase' = "new"
            /\ model' = SliderModel(cfg)
            /\ err' = IF Numerical(cfg).adjusted THEN "UserWarning"
                      ELSE "none"
    /\ op' = "construct" /\ arg' = NoArg
    /\ UNCHANGED <<cfg, state, trace_ids, traces, slider_value, ret_val,
                   sinks, thumb_clicked, track_clicked, resumed, writes>>

\* Slider.__init__, "Start & initialize": enable(), then
\* set(model.initial_value); a ValueError of set() leaves no slider.
SliderInit ==
    /\ phase = "new"
    /\ EngineStart
    /\ EngineSet([kind |-> "number", val |-> model.initial_value])
    /\ phase' = IF SetRejects([kind |-> "number", val |-> model.initial_value])
                THEN "failed" ELSE "ready"
    /\ op' = "init" /\ arg' = NoArg
    /\ UNCHANGED <<cfg, model, thumb_clicked, track_clicked, resumed>>

\* Slider.set(value)
Set(value) ==
    /\ phase = "ready"
    /\ EngineSet(value)
    /\ op' = "set" /\ arg' = value
    /\ UNCHANGED <<cfg, model, phase, state, trace_ids, traces,
                   thumb_clicked, track_clicked, resumed>>

\* Slider.enable()
Enable ==
    /\ phase = "ready"
    /\ EngineStart
    /\ Ghost("enable", NoArg, IF state THEN "UserWarning" ELSE "none")
    /\ resumed' = IF ~state /\ resumed = "cut" THEN "yes" ELSE resumed
    /\ writes' = 0
    /\ UNCHANGED <<cfg, model, phase, slider_value, ret_val, sinks,
                   thumb_clicked, track_clicked>>

\* Slider.disable(); also _SliderEngine.stop() on the engine that
\* Slider.__init__ has built and not yet started.
Disable ==
    /\ phase \in {"new", "ready"}
    /\ EngineStop
    /\ Ghost("disable", NoArg, IF state THEN "none" ELSE "UserWarning")
    /\ resumed' = IF state /\ (thumb_clicked \/ track_clicked)
                  THEN "cut" ELSE resumed
    /\ writes' = 0
    /\ UNCHANGED <<cfg, model, phase, slider_value, ret_val, sinks,
                   thumb_clicked, track_clicked>>

\* The variables handed to add_subscriber: a DoubleVar stands for the two
\* accepted classes (an IntVar is traced and set in the same way), a
\* StringVar for every other object.
SubscriberVars == {"DoubleVar", "StringVar"}

AcceptedVar(var) == var \in {"IntVar", "DoubleVar"}

\* add_subscriber with the isinstance test after the registration: the
\* variable is traced and set, and only then is its class refused.
AddSubscriberChecksLate(var) ==
    /\ phase = "ready"
    /\ Len(sinks) < MaxSubscribers
    /\ sinks' = Append(sinks, ret_val)
    /\ Ghost("add_subscriber", [kind |-> var, val |-> 0],
             IF AcceptedVar(var) THEN "none" ELSE "ValueError")
    /\ writes' = 0
    /\ UNCHANGED <<cfg, model, phase, state, trace_ids, traces, slider_value,
                   ret_val, thumb_clicked, track_clicked, resumed>>

\* Slider.add_subscriber(var): an IntVar or DoubleVar is traced on ret_val
\* and set to it at once; any other object raises ValueError before anything
\* is registered.
AddSubscriber(var) ==
    /\ phase = "ready"
    /\ IF AcceptedVar(var)
          THEN /\ Len(sinks) < MaxSubscribers
               /\ sinks' = Append(sinks, ret_val)
               /\ Ghost("add_subscriber", [kind |-> var, val |-> 0], "none")
          ELSE /\ sinks' = sinks
               /\ Ghost("add_subscriber", [kind |-> var, val |-> 0],
                        "ValueError")
    /\ writes' = 0
    /\ UNCHANGED <<cfg, model, phase, state, trace_ids, traces, slider_value,
                   ret_val, thumb_clicked, track_clicked, resumed>>

\* _SliderEngine.snap_slider
SnapSlider == WriteSliderValue(Snap(slider_value), 1)

\* Mutant of ReleaseSnap: the release snaps whatever snap_to_ticks says.
ReleaseSnapAlways == SnapSlider

\* The end of _Thumb._release and _Track._release: snap if configured.
ReleaseSnap ==
    IF model.snap_to_ticks
    THEN SnapSlider
    ELSE /\ UNCHANGED <<slider_value, ret_val, sinks>>
         /\ writes' = 0

-----------------------------------------------------------------------------
(* _Thumb and _Track: the pointer handlers *)

\* event.x > self.thumb.position.get()
BeyondThumb(x) ==
    (x * model.displacement_to_value - PositionNum(slider_value))
    * Sign(model.displacement_to_value) > 0

\* Whether pixel x of the track is covered by the thumb window, which
\* then receives the event instead of the track.
OnThumb(x) ==
    LET before(y) ==
            (y * model.displacement_to_value - PositionNum(slider_value))
            * Sign(model.displacement_to_value) < 0
    IN  ~before(x) /\ before(x - model.thumb_long_side)

\* _Track._click_hor / _click_vert: the displacement a click at x asks
\* for, as slide_snapped.get() returns it (an IntVar read truncates).
ClickDelta(x) ==
    LET D == model.displacement_to_value
        P == PositionNum(slider_value)
        T == IF BeyondThumb(x) THEN model.thumb_long_side ELSE 0
    IN  IF model.orientation = "horizontal"
        THEN TruncDiv((x - T) * D - P, D)
        ELSE TruncDiv(P - (x - T) * D, D)

\* _Thumb._click
ThumbClick ==
    /\ phase = "ready"
    /\ ~track_clicked
    /\ thumb_clicked' = TRUE
    /\ Ghost("thumb_click", NoArg, "none")
    /\ resumed' = "no"
    /\ writes' = 0
    /\ UNCHANGED <<cfg, model, phase, state, trace_ids, traces, slider_value,
                   ret_val, sinks, track_clicked>>

\* _Thumb._move_hor / _move_vert
ThumbMove(px) ==
    /\ phase = "ready"
    /\ thumb_clicked
    /\ WriteChannel("slide", px)
    /\ Ghost("move", Pixels(px), "none")
    /\ UNCHANGED <<cfg, model, phase, state, trace_ids, traces,
                   thumb_clicked, track_clicked, resumed>>

\* _Thumb._release
ThumbRelease ==
    /\ phase = "ready"
    /\ thumb_clicked' = FALSE
    /\ ReleaseSnap
    /\ Ghost("release", NoArg, "none")
    /\ resumed' = "no"
    /\ UNCHANGED <<cfg, model, phase, state, trace_ids, traces,
                   track_clicked>>

\* _Track._click_hor / _click_vert
TrackClick(x) ==
    /\ phase = "ready"
    /\ ~thumb_clicked
    /\ ~OnThumb(x)
    /\ track_clicked' = TRUE
    /\ WriteChannel("slide_snapped", ClickDelta(x))
    /\ Ghost("click", Pixels(ClickDelta(x)), "none")
    /\ resumed' = "no"
    /\ UNCHANGED <<cfg, model, phase, state, trace_ids, traces,
                   thumb_clicked>>

\* _Track._move_hor / _move_vert
TrackMove(px) ==
    /\ phase = "ready"
    /\ track_clicked
    /\ WriteChannel("slide", px)
    /\ Ghost("move", Pixels(px), "none")
    /\ UNCHANGED <<cfg, model, phase, state, trace_ids, traces,
                   thumb_clicked, track_clicked, resumed>>

\* _Track._release
TrackRelease ==
    /\ phase = "ready"
    /\ track_clicked' = FALSE
    /\ ReleaseSnap
    /\ Ghost("release", NoArg, "none")
    /\ resumed' = "no"
    /\ UNCHANGED <<cfg, model, phase, state, trace_ids, traces,
                   thumb_clicked>>

\* The <MouseWheel> bindings of the track, the thumb and the bars.
MouseWheel(delta) ==
    /\ phase = "ready"
    /\ WriteChannel("slide_fast", delta)
    /\ Ghost("wheel", Pixels(delta), "none")
    /\ UNCHANGED <<cfg, model, phase, state, trace_ids, traces,
                   thumb_clicked, track_clicked, resumed>>

-----------------------------------------------------------------------------
(* The engine of a second slider, given by its model m *)

\* The keyword arguments with the other orientation.
Flipped(c) ==
    [c EXCEPT !.orientation = IF @ = "horizontal" THEN "vertical"
                              ELSE "horizontal"]

\* _SliderEngine._clamp of an engine whose model is m
ClampIn(m, num) == Min(Max(m.min_value, num), m.max_value)

\* _SliderEngine._snap of that engine
SnapIn(m, value) ==
    RoundHalfUpDiv(RoundHalfEven(value, Unit(m.precision)),
                   m.tick_width_num)
    * m.tick_width_num

\* _SliderEngine._slide, _slide_fast and _slide_snapped of that engine
HandlerValueIn(m, ch, cur, d) ==
    LET s == IF d < 0 THEN -1 ELSE 1
    IN  CASE ch = "slide" ->
               ClampIn(m, cur + d * m.displacement_to_value)
          [] ch = "slide_fast" ->
               IF cur = SnapIn(m, cur)
               THEN ClampIn(m, cur + d * m.tick_width_num)
               ELSE ClampIn(m, SnapIn(m, cur
                                         + s * (m.tick_width_num \div 2)))
          [] ch = "slide_snapped" ->
               ClampIn(m, SnapIn(m, cur + d * m.displacement_to_value
                                        + s * (m.tick_width_num \div 2)))

\* The outcome of _SliderEngine.set(value) on that engine: whether it
\* raises, and the value it stores if not.
SetIn(m, value) ==
    LET requested == IF m.precision # 0 THEN value.val
                     ELSE IntOfFloat(value.val)
    IN  [ rejects |-> \/ value.kind # "number"
                      \/ requested # ClampIn(m, requested),
          stores |-> IF m.snap_to_ticks THEN SnapIn(m, requested)
                     ELSE requested ]

-----------------------------------------------------------------------------
(* The state machine *)

\* Slider(parent, **kwargs) is called; the variables of the engine hold
\* the defaults tkinter gives them.
Init ==
    /\ cfg \in Configs
    /\ model = NoModel
    /\ phase = "args"
    /\ state = FALSE
    /\ trace_ids = <<>>
    /\ traces = [ch \in ChannelSet |-> 0]
    /\ slider_value = 0
    /\ ret_val = 0
    /\ sinks = <<>>
    /\ thumb_clicked = FALSE
    /\ track_clicked = FALSE
    /\ op = "call"
    /\ arg = NoArg
    /\ resumed = "no"
    /\ err = "none"
    /\ writes = 0

Next ==
    \/ Construct
    \/ SliderInit
    \/ \E value \in SetInputs : Set(value)
    \/ Enable
    \/ Disable
    \/ \E var \in SubscriberVars : AddSubscriber(var)
    \/ ThumbClick
    \/ \E px \in MoveDeltas : ThumbMove(px)
    \/ ThumbRelease
    \/ \E x \in ClickPositions : TrackClick(x)
    \/ \E px \in MoveDeltas : TrackMove(px)
    \/ TrackRelease
    \/ \E delta \in WheelDeltas : MouseWheel(delta)

Spec == Init /\ [][Next]_vars

\* The sliders of the click scenario, driven by clicks on any pixel of the
\* track, releases and wheel steps.
ClickInit ==
    /\ cfg \in ScenarioConfigs
    /\ model = NoModel
    /\ phase = "args"
    /\ state = FALSE
    /\ trace_ids = <<>>
    /\ traces = [ch \in ChannelSet |-> 0]
    /\ slider_value = 0
    /\ ret_val = 0
    /\ sinks = <<>>
    /\ thumb_clicked = FALSE
    /\ track_clicked = FALSE
    /\ op = "call"
    /\ arg = NoArg
    /\ resumed = "no"
    /\ err = "none"
    /\ writes = 0

ClickNext ==
    \/ Construct
    \/ SliderInit
    \/ \E x \in TrackPixels : TrackClick(x)
    \/ TrackRelease
    \/ \E delta \in WheelDeltas : MouseWheel(delta)

ClickSpec == ClickInit /\ [][ClickNext]_vars

\* The largest distance in pixels between track_length and the thumb
\* length among the layouts below.
MaxSlide == 10

\* Keyword arguments for the geometry: every track length within MaxSlide
\* pixels of the thumb length, shorter ones included, one to four ticks,
\* on the range 0..2520, which every slide length up to 10 divides.
LayoutConfigs ==
    { c \in [ orientation : {"horizontal", "vertical"},
              thumb_style : {"classic", "dot"},
              track_length : 30 - MaxSlide .. 40 + MaxSlide,
              start_value : {0}, end_value : {2520 * Scale},
              has_initial : {FALSE}, initial_value : {0},
              num_ticks : 1 .. 4,
              precision : {0}, snap_to_ticks : {FALSE} ] :
        Abs(c.track_length - ThumbLongSide(c)) <= MaxSlide }

\* Slider(...) is called with one of LayoutConfigs.
LayoutInit ==
    /\ cfg \in LayoutConfigs
    /\ model = NoModel
    /\ phase = "args"
    /\ state = FALSE
    /\ trace_ids = <<>>
    /\ traces = [ch \in ChannelSet |-> 0]
    /\ slider_value = 0
    /\ ret_val = 0
    /\ sinks = <<>>
    /\ thumb_clicked = FALSE
    /\ track_clicked = FALSE
    /\ op = "call"
    /\ arg = NoArg
    /\ resumed = "no"
    /\ err = "none"
    /\ writes = 0

LayoutNext ==
    \/ Construct
    \/ SliderInit

LayoutSpec == LayoutInit /\ [][LayoutNext]_vars

-----------------------------------------------------------------------------
(* Types *)

TypeOK ==
    /\ cfg \in Configs
    /\ phase \in {"args", "new", "ready", "failed"}
    /\ state \in BOOLEAN
    /\ \A ch \in ChannelSet : traces[ch] \in 0..1
    /\ Len(sinks) <= MaxSubscribers
    /\ thumb_clicked \in BOOLEAN /\ track_clicked \in BOOLEAN
    /\ writes \in 0..1

-----------------------------------------------------------------------------
(* Claims *)

InRange(v) == model.min_value <= v /\ v <= model.max_value

InputOps == {"move", "wheel", "click", "release"}

\* C1: once the slider is constructed, after every operation
\* min_value <= current_value <= max_value and min_value <= get() <= max_value.
C1_RangeInvariant ==
    phase = "ready" => InRange(slider_value) /\ InRange(ret_val)

\* C2: set(value) raises for every numeric value outside
\* [min_value, max_value], whatever the precision.
C2_OutOfRangeRejected ==
    (op = "set" /\ arg.kind = "number" /\ ~InRange(arg.val))
        => err = "ValueError"

\* C3: a set() that raises leaves current_value, the published value, the
\* interaction state, the registered handlers and the subscribers as they
\* were and notifies nobody.
C3_FailedSetChangesNothing ==
    [][(op' = "set" /\ err' = "ValueError")
          => /\ UNCHANGED <<state, trace_ids, traces, slider_value,
                            ret_val, sinks, phase>>
             /\ writes' = 0]_vars

\* C3 witness: an out-of-range set() has raised on a slider that has a
\* subscriber and a value other than the bound the request would clamp to.
C3_Witness ==
    /\ op = "set" /\ err = "ValueError"
    /\ arg.kind = "number" /\ arg.val > model.max_value
    /\ slider_value # model.max_value
    /\ Len(sinks) > 0

\* C4: with snap_to_ticks off, after set(v) for v in [min_value, max_value]
\* get() returns round(v, precision).
C4_SetGetRoundTrip ==
    (op = "set" /\ arg.kind = "number" /\ InRange(arg.val)
     /\ ~model.snap_to_ticks)
        => ret_val = RoundHalfEven(arg.val, Unit(model.precision))

\* C5: while the engine is disabled no pointer or wheel operation, the
\* snap on release included, changes current_value or the published value.
C5_DisabledIgnoresInput ==
    [][(~state /\ op' \in InputOps)
          => slider_value' = slider_value /\ ret_val' = ret_val]_vars

\* C6: set(v) with an in-range number succeeds and stores, publishes and
\* notifies in the same way whether the engine is enabled or disabled.
C6_SetIgnoresInteractionState ==
    [][(op' = "set" /\ arg'.kind = "number" /\ InRange(arg'.val))
          => /\ err' = "none"
             /\ slider_value' = SetValue(arg'.val)
             /\ ret_val' = Rounded(slider_value')
             /\ \A i \in DOMAIN sinks' : sinks'[i] = ret_val'
             /\ writes' = 1
             /\ state' = state]_vars

\* C6 witness: a set() has succeeded on a disabled engine with a subscriber.
C6_Witness ==
    /\ ~state /\ phase = "ready"
    /\ op = "set" /\ err = "none" /\ writes = 1
    /\ Len(sinks) > 0
    /\ slider_value # model.initial_value

\* C7: every displacement variable has exactly one handler while enabled
\* and none while disabled; enable() on an enabled engine only warns and
\* changes nothing; a displacement event is applied once when enabled.
C7_EnableIdempotent ==
    /\ [](\A ch \in ChannelSet : traces[ch] = IF state THEN 1 ELSE 0)
    /\ [][(op' = "enable" /\ state)
             => /\ err' = "UserWarning"
                /\ UNCHANGED <<phase, state, trace_ids, traces,
                               slider_value, ret_val, sinks,
                               thumb_clicked, track_clicked>>]_vars
    /\ [][(op' \in {"move", "wheel", "click"})
             => writes' = IF state THEN 1 ELSE 0]_vars

\* C7 witness: enable() was called on an enabled engine.
C7_Witness ==
    /\ op = "enable" /\ err = "UserWarning"
    /\ state
    /\ \A ch \in ChannelSet : traces[ch] = 1

\* C8: disable() on a disabled engine only warns: no handler is removed and
\* the interaction state, current_value and the published value stay.
C8_RedundantDisable ==
    [][(op' = "disable" /\ ~state)
          => /\ err' = "UserWarning"
             /\ UNCHANGED <<phase, state, trace_ids, traces, slider_value,
                            ret_val, sinks>>]_vars

\* C8 witness: disable() was called on a slider that was disabled before.
C8_Witness ==
    /\ op = "disable" /\ err = "UserWarning"
    /\ phase = "ready" /\ ~state
    /\ \A ch \in ChannelSet : traces[ch] = 0

\* C9: enable() and disable() leave current_value and the published value
\* alone; a drag event on a disabled engine changes nothing, and a drag
\* event on an enabled engine moves the value from where it stands by its
\* own displacement only.
C9_ResumeWithoutJump ==
    [][/\ (op' \in {"enable", "disable"})
             => slider_value' = slider_value /\ ret_val' = ret_val
       /\ (op' = "move" /\ ~state)
             => slider_value' = slider_value /\ ret_val' = ret_val
       /\ (op' = "move" /\ state)
             => /\ slider_value' =
                      Clamp(slider_value
                            + arg'.val * model.displacement_to_value)
                /\ ret_val' = Rounded(slider_value')]_vars

\* C9 witness: a drag was cut by disable(), the engine was enabled again
\* and the next drag event has moved the value inside the range.
C9_Witness ==
    /\ op = "move" /\ resumed = "yes" /\ state
    /\ thumb_clicked \/ track_clicked
    /\ model.min_value < slider_value /\ slider_value < model.max_value

\* C10: every subscriber holds the published value, which is the rounded
\* current_value, from its registration on and after every change.
C10_SubscribersHoldPublished ==
    phase = "ready"
        => \A i \in DOMAIN sinks :
              sinks[i] = ret_val /\ sinks[i] = Rounded(slider_value)

\* C10 witness: two subscribers after a drag event has left a
\* current_value that differs from its rounded form.
C10_Witness ==
    /\ Len(sinks) >= 2
    /\ op = "move" /\ writes = 1
    /\ slider_value # Rounded(slider_value)

\* The displacement variable an input operation writes.
ChannelOf(o) ==
    CASE o = "move" -> "slide"
      [] o = "wheel" -> "slide_fast"
      [] o = "click" -> "slide_snapped"

\* C11: every displacement event on an enabled engine and every successful
\* set() is applied to the value the event before it left, writes the
\* published value exactly once and hands that value to every subscriber
\* within the same step, also when the value does not change; an event on
\* a disabled engine and a failed set() notify nobody.
C11_PublicationOrdering ==
    [][/\ (op' \in {"move", "wheel", "click"} /\ state)
             => /\ slider_value' =
                      HandlerValue(ChannelOf(op'), slider_value, arg'.val)
                /\ writes' = 1
                /\ \A i \in DOMAIN sinks' :
                      sinks'[i] = Rounded(slider_value')
       /\ (op' = "set" /\ err' = "none")
             => /\ writes' = 1
                /\ \A i \in DOMAIN sinks' :
                      sinks'[i] = Rounded(SetValue(arg'.val))
       /\ ((op' \in {"move", "wheel", "click"} /\ ~state)
           \/ (op' = "set" /\ err' # "none"))
             => writes' = 0 /\ sinks' = sinks]_vars

\* C11 witness: a drag event against the upper bound was applied and
\* published once to a subscriber.
C11_Witness ==
    /\ op = "move" /\ state /\ writes = 1
    /\ arg.val * model.displacement_to_value > 0
    /\ slider_value = model.max_value
    /\ Len(sinks) > 0

\* C12: once constructed, get() is current_value rounded to `precision`
\* decimals, an integer when precision is 0, and so differs from every
\* current_value that has more decimals.
C12_PublishedValue ==
    phase = "ready"
        => /\ ret_val = RoundHalfEven(slider_value, Unit(model.precision))
           /\ model.precision = 0 => ret_val % Scale = 0
           /\ slider_value % Unit(model.precision) # 0
                 => ret_val # slider_value

\* C12 witness: a slider of precision 0 whose current_value is no integer.
C12_Witness ==
    /\ phase = "ready" /\ model.precision = 0
    /\ slider_value % Scale # 0
    /\ op \in {"move", "release"}

\* C13: Slider(...) with start_value == end_value raises ValueError and
\* leaves no model and no engine: no attribute of the model is set, no
\* trace is registered, the engine is not enabled and nothing is published.
C13_InvalidRangeFails ==
    (cfg.start_value = cfg.end_value /\ phase # "args")
        => /\ phase = "failed" /\ op = "construct" /\ err = "ValueError"
           /\ model = NoModel
           /\ ~state /\ trace_ids = <<>>
           /\ \A ch \in ChannelSet : traces[ch] = 0
           /\ writes = 0 /\ sinks = <<>>
           /\ slider_value = 0 /\ ret_val = 0

\* C13 witness: the constructor was run on equal range ends and raised.
C13_Witness ==
    /\ cfg.start_value = cfg.end_value
    /\ op = "construct" /\ phase = "failed"

\* end_value - start_value of the ends rounded to `precision` decimals.
RoundedRange(c) ==
    RoundHalfEven(c.end_value, Unit(c.precision))
    - RoundHalfEven(c.start_value, Unit(c.precision))

\* |value_range / num_ticks| < 10^-precision for the configured num_ticks.
TickWidthTooSmall(c) ==
    Abs(RoundedRange(c)) < Unit(c.precision) * c.num_ticks

\* C14: for start_value # end_value, if |value_range / num_ticks| is below
\* 10^-precision the constructor does not fail, warns and continues with
\* num_ticks = abs(value_range) * 10^precision; otherwise num_ticks stays
\* as configured; every constructed model has
\* |tick_width_num| >= 10^-precision.
C14_TickCountCorrection ==
    (cfg.start_value # cfg.end_value /\ phase # "args")
        => /\ op = "construct" => phase = "new"
           /\ model # NoModel
           /\ Abs(model.tick_width_num) >= Unit(cfg.precision)
           /\ IF TickWidthTooSmall(cfg)
              THEN /\ op = "construct" => err = "UserWarning"
                   /\ model.num_ticks * Unit(cfg.precision)
                         = Abs(RoundedRange(cfg))
              ELSE /\ op = "construct" => err = "none"
                   /\ model.num_ticks = cfg.num_ticks

\* C15: a corrected num_ticks is greater than the configured num_ticks.
C15_CorrectionUpward ==
    (model # NoModel /\ TickWidthTooSmall(cfg))
        => model.num_ticks > cfg.num_ticks

\* C15 amended: the correction is downward: a corrected num_ticks is
\* abs(value_range) * 10^precision and less than the configured num_ticks,
\* and no constructed model has more ticks than configured.
C15_CorrectionDownward ==
    model # NoModel
        => /\ model.num_ticks <= cfg.num_ticks
           /\ TickWidthTooSmall(cfg)
                 => /\ model.num_ticks < cfg.num_ticks
                    /\ model.num_ticks * Unit(cfg.precision)
                          = Abs(RoundedRange(cfg))

\* C15 witness: the constructor has warned about the ticks of a range that
\* holds fewer values than the configured num_ticks.
C15_Witness ==
    /\ op = "construct" /\ err = "UserWarning"
    /\ model # NoModel /\ TickWidthTooSmall(cfg)
    /\ model.num_ticks # cfg.num_ticks

\* C16: Slider.__init__ succeeds for every initial_value and seeds
\* current_value with initial_value clamped to [min_value, max_value],
\* quantized to a tick when snap_to_ticks is on.
C16_InitialSeeding ==
    op = "init"
        => /\ phase = "ready"
           /\ slider_value = IF model.snap_to_ticks
                              THEN Snap(Clamp(model.initial_value))
                              ELSE Clamp(model.initial_value)

\* C17: without a configured initial_value, get() is start_value rounded
\* to `precision` right after construction.
C17_StartsAtStartValue ==
    (op = "init" /\ ~cfg.has_initial)
        => /\ phase = "ready"
           /\ ret_val = RoundHalfEven(cfg.start_value, Unit(cfg.precision))

\* The values of [min_value, max_value] on a grid of ProbeStep / Scale.
SnapProbes ==
    {v \in model.min_value .. model.max_value : v % ProbeStep = 0}

\* C18: _snap(_snap(v)) = _snap(v) for every v in [min_value, max_value]
\* and for the current value, in every constructed configuration.
C18_SnapIdempotent ==
    model # NoModel
        => \A v \in SnapProbes \cup {slider_value} :
              Snap(Snap(v)) = Snap(v)

\* C18 witness: a release has snapped the slider to a tick that is no
\* multiple of 10^-precision, and snapping it again leaves it there.
C18_Witness ==
    /\ op = "release" /\ model.snap_to_ticks /\ writes = 1
    /\ slider_value % Unit(model.precision) # 0
    /\ InRange(slider_value)

\* C19: _snap depends on its argument only through the argument rounded
\* to `precision` decimals, and the snap on release stores the tick of the
\* published form of the value.
C19_SnapOfPublishedForm ==
    /\ [](model # NoModel
            => \A v \in SnapProbes \cup {slider_value} :
                  Snap(v) = Snap(Rounded(v)))
    /\ [][(op' = "release" /\ model.snap_to_ticks)
             => slider_value' = Snap(ret_val)]_vars

\* C19 witness: a release has snapped a slider on which some value and
\* its published form lie on different sides of a midpoint between ticks.
C19_Witness ==
    /\ op = "release" /\ model.snap_to_ticks /\ writes = 1
    /\ model.precision > 0
    /\ \E v \in SnapProbes :
          RoundHalfUpDiv(v, model.tick_width_num) * model.tick_width_num
              # Snap(v)

\* The tick next to v in the direction of a step d, on the grid of _snap:
\* a step d >= 0 travels toward end_value, a step d < 0 toward start_value.
NeighbourTick(v, d) ==
    LET w == Abs(model.tick_width_num)
        up == (IF d < 0 THEN -1 ELSE 1) * Sign(model.tick_width_num) > 0
    IN  IF up THEN ((v \div w) + 1) * w ELSE (v \div w) * w

\* C20: on an enabled engine one wheel step from a value strictly between
\* two ticks stores the neighbouring tick in the direction of the step
\* (the bound, where that tick lies beyond it).
C20_StepToNeighbourTick ==
    [][(op' = "wheel" /\ state
        /\ slider_value % Abs(model.tick_width_num) # 0)
          => slider_value' =
                Clamp(NeighbourTick(slider_value, arg'.val))]_vars

\* C21: on the slider 0..100 with ten ticks, precision 0 and snapping,
\* standing at 0, a click 52% across the track stores 50 and publishes
\* the integer 50.
C21_ClickScenario ==
    [][(op' = "click" /\ state
        /\ cfg.start_value = 0 /\ slider_value = 0
        /\ arg'.val = (52 * model.length) \div 100 - model.thumb_long_side)
          => slider_value' = 50 * Scale /\ ret_val' = 50 * Scale]_vars

\* C21 witness: the click of the scenario has been handled: a click with
\* the displacement of the pixel 52% across the track, leaving 50.
C21_Witness ==
    /\ op = "click" /\ state /\ cfg.start_value = 0
    /\ arg.val = (52 * model.length) \div 100 - model.thumb_long_side
    /\ slider_value = 50 * Scale /\ ret_val = 50 * Scale

\* Pixel offsets of the thumb along the track: 0 .. track_slide_length.
SlidePixels == 0 .. model.track_slide_length

\* |position(v) - p| <= 1, positions being PositionNum over
\* displacement_to_value.
WithinOnePixel(v, p) ==
    Abs(PositionNum(v) - p * model.displacement_to_value)
        <= Abs(model.displacement_to_value)

\* 0 <= position(v) <= track_slide_length
OnTrack(v) ==
    /\ PositionNum(v) * Sign(model.displacement_to_value) >= 0
    /\ PositionNum(v) * Sign(model.displacement_to_value)
          <= model.track_slide_length * Abs(model.displacement_to_value)

Twin == SliderModel(Flipped(cfg))

C24_DragSnapFree ==
    [][/\ (op' = "move" /\ state)
            => /\ slider_value' =
                     Clamp(slider_value
                           + arg'.val * model.displacement_to_value)
               /\ ret_val' = Rounded(slider_value')
       /\ (op' = "release" /\ model.snap_to_ticks)
            => slider_value' = Snap(slider_value)]_vars

\* C24 witness: a drag on a snapping slider left a value between the
\* bounds that the quantizer would change.
C24_Witness ==
    /\ op = "move" /\ state /\ model.snap_to_ticks
    /\ model.min_value < slider_value /\ slider_value < model.max_value
    /\ slider_value # Snap(slider_value)

IsTick(v) ==
    /\ InRange(v)
    /\ (v - model.start_value) % Abs(model.tick_width_num) = 0

\* C26: on an enabled engine a click displacement of the given pixels
\* stores clamp(quantize(current + pixels * displacement_to_value
\* + s * tick_width / 2)), s = -1 for negative pixels and +1 otherwise,
\* and the stored value is a tick within the bounds, whether snap_to_ticks
\* is on or off.
C26_SnappedDisplacement ==
    [][(op' = "click" /\ state)
          => /\ slider_value' =
                  Clamp(Snap(slider_value
                             + arg'.val * model.displacement_to_value
                             + (IF arg'.val < 0 THEN -1 ELSE 1)
                               * (model.tick_width_num \div 2)))
             /\ IsTick(slider_value')]_vars

\* C27: the snap on pointer release stores clamp(quantize(current)), so
\* the value it leaves is within [min_value, max_value].
C27_SnapSliderClamps ==
    [][(op' = "release" /\ model.snap_to_ticks)
          => /\ slider_value' = Clamp(Snap(slider_value))
             /\ InRange(slider_value')]_vars

\* C28: after a successful set(v) of a value within the bounds, with
\* snap_to_ticks on the current value is quantize(v), a tick; with
\* snap_to_ticks off it is v itself.
C28_SetSnaps ==
    (op = "set" /\ err = "none" /\ arg.kind = "number" /\ InRange(arg.val))
        => IF model.snap_to_ticks
           THEN slider_value = Snap(arg.val) /\ IsTick(slider_value)
           ELSE slider_value = arg.val

\* Values on and next to the midpoints between the multiples of the tick
\* width, below and above zero.
HalfTickProbes ==
    {k * (Abs(model.tick_width_num) \div 2) + e :
        k \in -2 * model.num_ticks .. 2 * model.num_ticks,
        e \in {-ProbeStep, 0, ProbeStep}}

\* t is the multiple of the tick width nearest to v at `precision`
\* decimals, and of two equally near ones the one farther from zero.
NearestHalfUp(v, t) ==
    LET d == Rounded(v)
        w == Abs(model.tick_width_num)
    IN  /\ t % w = 0
        /\ 2 * Abs(d - t) <= w
        /\ 2 * Abs(d - t) = w => Abs(t) > Abs(d)

\* C29: quantize(v) is the tick index times the tick width, the index
\* being d / tick_width rounded to the nearest integer, d the value at
\* `precision` decimals; an index exactly halfway between two integers is
\* rounded away from zero, for positive and negative values and for
\* ascending and descending ranges; a click stores the quantizer's result
\* for the biased value it computes.
C29_QuantizerHalfUp ==
    /\ [](model # NoModel
            => \A v \in HalfTickProbes \cup {slider_value} :
                  NearestHalfUp(v, Snap(v)))
    /\ [][(op' = "click" /\ state)
             => LET x == slider_value
                         + arg'.val * model.displacement_to_value
                         + (IF arg'.val < 0 THEN -1 ELSE 1)
                           * (model.tick_width_num \div 2)
                IN  \E t \in {Snap(x)} :
                       /\ NearestHalfUp(x, t)
                       /\ slider_value' = Clamp(t)]_vars

\* C29 witness: on a slider whose values are all ticks, a click displaced
\* by a whole number of tick widths was handled: the value it quantized
\* lay exactly halfway between two ticks, and the result is below zero.
C29_Witness ==
    /\ op = "click" /\ state /\ arg.val # 0
    /\ (arg.val * model.displacement_to_value)
          % Abs(model.tick_width_num) = 0
    /\ model.displacement_to_value % Unit(model.precision) # 0
    /\ slider_value < 0
    /\ model.min_value < slider_value /\ slider_value < model.max_value

\* C30: in every constructed layout the tick pixel width is
\* floor((track_length - thumb length) / num_ticks); the final track
\* length is thumb length + num_ticks * tick pixel width, not larger than
\* the requested track_length and smaller by less than num_ticks pixels;
\* tick pixel width * displacement_to_value = tick width, and the thumb
\* at the k-th tick stands k tick pixel widths from the start end.
C30_PixelSnappedGeometry ==
    model # NoModel
        => /\ model.tick_width =
                (cfg.track_length - model.thumb_long_side)
                \div model.num_ticks
           /\ model.length =
                model.thumb_long_side + model.num_ticks * model.tick_width
           /\ model.length <= cfg.track_length
           /\ cfg.track_length - model.length < model.num_ticks
           /\ model.tick_width * model.displacement_to_value
                = model.tick_width_num
           /\ \A k \in 0 .. model.num_ticks :
                PositionNum(model.start_value + k * model.tick_width_num)
                  = (IF model.orientation = "horizontal" THEN k
                     ELSE model.num_ticks - k)
                    * model.tick_width * model.displacement_to_value

C32_SnapOnTickGrid ==
    model # NoModel => \A v \in SnapProbes : IsTick(Snap(v))

\* C33: on a constructed slider with snap_to_ticks on, whenever neither
\* the thumb nor the track is held the current value is a tick within the
\* bounds.
C33_OnTickUnlessDragging ==
    (phase = "ready" /\ model.snap_to_ticks
     /\ ~thumb_clicked /\ ~track_clicked)
        => IsTick(slider_value)

\* C34: for keyword arguments that pass the start_value == end_value
\* check, the model is built and its rounded ends still differ: min_value
\* < max_value, and the tick width, displacement_to_value and num_ticks
\* are not zero.
C34_RangeNotDegenerate ==
    (op = "construct" /\ ~InvalidRange(cfg))
        => /\ phase = "new"
           /\ model.start_value # model.end_value
           /\ model.min_value < model.max_value
           /\ model.tick_width_num # 0
           /\ model.displacement_to_value # 0
           /\ model.num_ticks # 0

\* C35: for keyword arguments with a valid range the layout is built, and
\* its tick pixel width and its track_slide_length are at least one pixel:
\* displacement_to_value never divides by zero.
C35_PositiveSlideLength ==
    (op = "construct" /\ ~InvalidRange(cfg) /\ ~EmptyRange(cfg))
        => /\ phase = "new"
           /\ err # "ZeroDivisionError"
           /\ model.tick_width >= 1
           /\ model.track_slide_length >= 1

\* C36: on an enabled engine a displacement of 0 leaves the current value
\* as it is: for a drag at every value, for a wheel step and a click
\* whenever the value is on a tick.
C36_ZeroDisplacementNoOp ==
    [][(/\ op' \in {"move", "wheel", "click"} /\ state /\ arg'.val = 0
        /\ (op' = "move" \/ IsTick(slider_value)))
          => slider_value' = slider_value]_vars

\* C37: with snap_to_ticks off a pointer release on the thumb or on the
\* track leaves the current value and the published value as they were
\* and notifies no subscriber.
C37_ReleaseWithoutSnap ==
    [][(op' = "release" /\ ~model.snap_to_ticks)
          => /\ UNCHANGED <<slider_value, ret_val, sinks>>
             /\ writes' = 0]_vars

\* C37 witness: a release on a slider without snapping that has a
\* subscriber has left a value the quantizer would change.
C37_Witness ==
    /\ op = "release" /\ ~model.snap_to_ticks /\ phase = "ready"
    /\ Len(sinks) > 0
    /\ slider_value # Snap(slider_value)
    /\ writes = 0

\* C38: add_subscriber(var) with a var that is neither an IntVar nor a
\* DoubleVar fails with a ValueError and registers nothing: the subscribers
\* and what was written to them, the traces on slider_value and ret_val, the
\* current value and the published value are the same after the call as
\* before it, and the call writes to no variable.
C38_RejectedSubscriber ==
    [][(op' = "add_subscriber" /\ ~AcceptedVar(arg'.kind))
          => /\ err' = "ValueError"
             /\ UNCHANGED <<sinks, slider_value, ret_val, traces, trace_ids,
                            state, phase>>
             /\ writes' = 0]_vars

\* A StringVar has been refused by a slider that already has a subscriber.
C38_Witness ==
    /\ op = "add_subscriber"
    /\ arg.kind = "StringVar"
    /\ err = "ValueError"
    /\ Len(sinks) > 0

====
